---- MODULE Spec2Model ----
(***************************************************************************)
(* Model of the diary application (app/main.py, app/models.py, app/db.py). *)
(*                                                                         *)
(* The five SQLModel tables are functions from the row id to the row.      *)
(* Dates are day numbers.  An Optional column holds the empty set for None *)
(* and a singleton for a value.  Strings the user types are sequences of   *)
(* characters, so that strip() is computed rather than assumed.            *)
(*                                                                         *)
(* Streamlit re-executes main.py from its first line on every page load    *)
(* and on every click: the top of the script runs migrate_show_data,       *)
(* check_deadline_reminders and check_achievements, the handler of the     *)
(* clicked widget runs where the script reaches it, and st.rerun() starts  *)
(* the script again.  Every action below is one such execution.            *)
(***************************************************************************)
EXTENDS Integers, Sequences, FiniteSets, TLC

VARIABLES
    tasks,      \* table Task:         id -> [title, priority, due, desc, done]
    shows,      \* table Show:         id -> [title, season, episode, total, total_watched_episodes]
    books,      \* table Book:         id -> [title, author, pages_total, pages_read]
    logs,       \* table LearningLog:  id -> [topic, minutes, notes, log_date]
    notifs,     \* table Notification: id -> [type, title, message, is_read, created_date, related_id]
    clock,      \* the calendar day date.today() returns
    last,       \* history: the widget that started the latest step, and its argument
    sess        \* the script executions in progress (used by SpecRace only)

vars == <<tasks, shows, books, logs, notifs, clock, last, sess>>

\* The database as one value, as a script execution sees it.
DB == [tasks |-> tasks, shows |-> shows, books |-> books, logs |-> logs, notifs |-> notifs]

EmptyTable == [i \in {} |-> 0]

EmptyDB == [tasks |-> EmptyTable, shows |-> EmptyTable, books |-> EmptyTable,
            logs |-> EmptyTable, notifs |-> EmptyTable]

----------------------------------------------------------------------------
(* Helpers of the storage layer                                            *)

Max(S) == CHOOSE m \in S : \A x \in S : x <= m

Min(S) == CHOOSE m \in S : \A x \in S : m <= x

\* A mistaken id assignment: the number of rows plus one.
NextIdByCount(table) == Cardinality(DOMAIN table) + 1

\* id: Optional[int] = Field(default=None, primary_key=True): an INTEGER
\* PRIMARY KEY without AUTOINCREMENT, for which SQLite assigns one more than
\* the largest id in the table.
NextId(table) == IF DOMAIN table = {} THEN 1 ELSE Max(DOMAIN table) + 1

\* session.add(row); session.commit() of a new row.
Insert(table, row) ==
    LET id == NextId(table)
    IN  [i \in DOMAIN table \cup {id} |-> IF i = id THEN row ELSE table[i]]

\* session.delete(obj); session.commit()
Delete(table, id) == [i \in DOMAIN table \ {id} |-> table[i]]

\* str.strip() on a sequence of characters
RECURSIVE LStrip(_)
LStrip(s) == IF s # <<>> /\ Head(s) = " " THEN LStrip(Tail(s)) ELSE s

RECURSIVE RStrip(_)
RStrip(s) ==
    IF s # <<>> /\ s[Len(s)] = " " THEN RStrip(SubSeq(s, 1, Len(s) - 1)) ELSE s

\* A strip that trims the left end only.
lstrip_only(s) == LStrip(s)

strip(s) == RStrip(LStrip(s))

----------------------------------------------------------------------------
(* Row constructors (app/models.py)                                        *)

Task(title, priority, due, desc, done) ==
    [title |-> title, priority |-> priority, due |-> due, desc |-> desc, done |-> done]

Show(title, season, episode, total) ==
    [title |-> title, season |-> season, episode |-> episode, total |-> total,
     total_watched_episodes |-> 0]

Book(title, author, pages_total, pages_read) ==
    [title |-> title, author |-> author, pages_total |-> pages_total,
     pages_read |-> pages_read]

LearningLog(topic, minutes, notes, log_date) ==
    [topic |-> topic, minutes |-> minutes, notes |-> notes, log_date |-> log_date]

\* created_date is filled by default_factory=dt.date.today when the row is
\* constructed: stamp is the day that call returns.
Notification(type, title, message, related_id, stamp) ==
    [type |-> type, title |-> title, message |-> message, is_read |-> FALSE,
     created_date |-> stamp, related_id |-> related_id]

Message(text, n, title) == [text |-> text, n |-> n, title |-> title]

DeadlineTitle == "deadline reminder"
MultiTaskTitle == "multiple tasks completed"
BookTitle == "book completed"
LearningTitle == "intensive learning"

ReminderWindow == 3
MultiTaskThreshold == 3
LearningThreshold == 60

----------------------------------------------------------------------------
(* Notification engine: check_deadline_reminders                           *)

\* The selection without the test of done.
UpcomingTasksAnyDone(tsk, today) ==
    {id \in DOMAIN tsk :
        \E d \in tsk[id].due : d >= today /\ d <= today + ReminderWindow}

\* select(Task).where(due is not None, due >= today, due <= today + 3, done == False)
UpcomingTasks(tsk, today) ==
    {id \in DOMAIN tsk :
        /\ tsk[id].due # {}
        /\ \E d \in tsk[id].due : d >= today /\ d <= today + ReminderWindow
        /\ tsk[id].done = FALSE}

\* Two phrasings only: today, and in N days also for tomorrow.
DeadlineMessageNoTomorrow(days_left, title) ==
    IF days_left = 0 THEN Message("today", days_left, title)
    ELSE Message("in_days", days_left, title)

\* The three phrasings of the reminder, chosen by days_left.
DeadlineMessage(days_left, title) ==
    IF days_left = 0 THEN Message("today", days_left, title)
    ELSE IF days_left = 1 THEN Message("tomorrow", days_left, title)
    ELSE Message("in_days", days_left, title)

\* A dedup query that looks for unread reminders only.
DeadlineExistingUnread(ntf, task_id, today) ==
    {n \in DOMAIN ntf :
        /\ ntf[n].type = "deadline"
        /\ ntf[n].related_id = {task_id}
        /\ ntf[n].created_date = today
        /\ ntf[n].is_read = FALSE}

\* A dedup query that finds nothing.
DeadlineExistingNone(ntf, task_id, today) == {}

\* select(Notification).where(type == "deadline", related_id == task.id,
\*                            created_date == today)
DeadlineExisting(ntf, task_id, today) ==
    {n \in DOMAIN ntf :
        /\ ntf[n].type = "deadline"
        /\ ntf[n].related_id = {task_id}
        /\ ntf[n].created_date = today}

\* One turn of "for task in upcoming_tasks": the dedup query, then the insert.
DeadlineStep(ntf, tsk, id, today, stamp) ==
    LET task == tsk[id]
        days_left == Max(task.due) - today
    IN  IF DeadlineExisting(ntf, id, today) = {}
        THEN Insert(ntf, Notification("deadline", DeadlineTitle,
                                      DeadlineMessage(days_left, task.title),
                                      {id}, stamp))
        ELSE ntf

\* The loop over upcoming_tasks, in the order of the ids.
RECURSIVE DeadlineLoop(_, _, _, _, _)
DeadlineLoop(ntf, tsk, ids, today, stamp) ==
    IF ids = {} THEN ntf
    ELSE LET id == Min(ids)
         IN  DeadlineLoop(DeadlineStep(ntf, tsk, id, today, stamp), tsk,
                          ids \ {id}, today, stamp)

\* today is the value of date.today() at the first line of the function,
\* stamp the value default_factory reads when a Notification is constructed.
check_deadline_reminders(db, today, stamp) ==
    [db EXCEPT !.notifs =
        DeadlineLoop(db.notifs, db.tasks, UpcomingTasks(db.tasks, today), today, stamp)]

----------------------------------------------------------------------------
(* Notification engine: check_achievements                                 *)

\* select(Task).where(done == True, due == today)
TodayDoneTasks(tsk, today) ==
    {id \in DOMAIN tsk : tsk[id].done = TRUE /\ tsk[id].due = {today}}

\* A threshold that is passed only above three tasks.
MultiTaskReachedAbove(count) == count > MultiTaskThreshold

\* if len(today_tasks) >= 3
MultiTaskReached(count) == count >= MultiTaskThreshold

\* select(Notification).where(type == "achievement",
\*                            title == <multi-task title>, created_date == today)
MultiTaskExisting(ntf, today) ==
    {n \in DOMAIN ntf :
        /\ ntf[n].type = "achievement"
        /\ ntf[n].title = MultiTaskTitle
        /\ ntf[n].created_date = today}

MultiTaskRule(db, today, stamp) ==
    LET count == Cardinality(TodayDoneTasks(db.tasks, today))
    IN  IF MultiTaskReached(count) /\ MultiTaskExisting(db.notifs, today) = {}
        THEN [db EXCEPT !.notifs =
                Insert(db.notifs, Notification("achievement", MultiTaskTitle,
                                               Message("multi", count, <<>>),
                                               {}, stamp))]
        ELSE db

\* select(Book).where(pages_read >= pages_total, pages_total > 0)
CompletedBooks(bks) ==
    {id \in DOMAIN bks :
        bks[id].pages_read >= bks[id].pages_total /\ bks[id].pages_total > 0}

\* A dedup query bounded by the day, like those of the other rules.
BookExistingToday(ntf, book_id, today) ==
    {n \in DOMAIN ntf :
        /\ ntf[n].type = "achievement"
        /\ ntf[n].related_id = {book_id}
        /\ ntf[n].created_date = today}

\* A dedup query that looks for unread notifications only.
BookExistingUnread(ntf, book_id, today) ==
    {n \in DOMAIN ntf :
        /\ ntf[n].type = "achievement"
        /\ ntf[n].related_id = {book_id}
        /\ ntf[n].is_read = FALSE}

\* select(Notification).where(type == "achievement", related_id == book.id):
\* today is not part of the query.
BookExisting(ntf, book_id, today) ==
    {n \in DOMAIN ntf :
        ntf[n].type = "achievement" /\ ntf[n].related_id = {book_id}}

\* One turn of "for book in completed_books".
BookStep(ntf, bks, id, today, stamp) ==
    IF BookExisting(ntf, id, today) = {}
    THEN Insert(ntf, Notification("achievement", BookTitle,
                                  Message("book", 0, bks[id].title), {id}, stamp))
    ELSE ntf

RECURSIVE BookLoop(_, _, _, _, _)
BookLoop(ntf, bks, ids, today, stamp) ==
    IF ids = {} THEN ntf
    ELSE LET id == Min(ids)
         IN  BookLoop(BookStep(ntf, bks, id, today, stamp), bks, ids \ {id},
                      today, stamp)

BookRule(db, today, stamp) ==
    [db EXCEPT !.notifs =
        BookLoop(db.notifs, db.books, CompletedBooks(db.books), today, stamp)]

\* Every log, whatever its date.
LearningLogsAnyDay(lgs, today) == DOMAIN lgs

\* select(LearningLog).where(log_date == today)
LearningLogsToday(lgs, today) == {id \in DOMAIN lgs : lgs[id].log_date = today}

\* sum(log.minutes for log in learning_logs)
RECURSIVE SumMinutes(_, _)
SumMinutes(lgs, ids) ==
    IF ids = {} THEN 0
    ELSE LET id == Min(ids) IN lgs[id].minutes + SumMinutes(lgs, ids \ {id})

\* select(Notification).where(type == "motivation",
\*                            title == <learning title>, created_date == today)
LearningExisting(ntf, today) ==
    {n \in DOMAIN ntf :
        /\ ntf[n].type = "motivation"
        /\ ntf[n].title = LearningTitle
        /\ ntf[n].created_date = today}

LearningRule(db, today, stamp) ==
    LET total_today_minutes == SumMinutes(db.logs, LearningLogsToday(db.logs, today))
    IN  IF total_today_minutes >= LearningThreshold
           /\ LearningExisting(db.notifs, today) = {}
        THEN [db EXCEPT !.notifs =
                Insert(db.notifs, Notification("motivation", LearningTitle,
                                               Message("learning", total_today_minutes, <<>>),
                                               {}, stamp))]
        ELSE db

check_achievements(db, today, stamp) ==
    LearningRule(BookRule(MultiTaskRule(db, today, stamp), today, stamp), today, stamp)

----------------------------------------------------------------------------
(* Backfill of Show.total_watched_episodes                                 *)

\* A backfill that adds the episode to the total of every show.
migrate_show_data_add(db) ==
    [db EXCEPT !.shows =
        [id \in DOMAIN db.shows |->
            [db.shows[id] EXCEPT !.total_watched_episodes =
                db.shows[id].total_watched_episodes + db.shows[id].episode]]]

\* A script without the backfill.
migrate_show_data_skipped(db) == db

\* A backfill that overwrites the total of every show.
migrate_show_data_always(db) ==
    [db EXCEPT !.shows =
        [id \in DOMAIN db.shows |->
            [db.shows[id] EXCEPT !.total_watched_episodes = db.shows[id].episode]]]

\* for show in shows: if show.total_watched_episodes == 0:
\*     show.total_watched_episodes = show.episode
migrate_show_data(db) ==
    [db EXCEPT !.shows =
        [id \in DOMAIN db.shows |->
            IF db.shows[id].total_watched_episodes = 0
            THEN [db.shows[id] EXCEPT !.total_watched_episodes = db.shows[id].episode]
            ELSE db.shows[id]]]

\* One notification pass: the two engine functions as the script calls them.
EnginePass(db, today) ==
    check_achievements(check_deadline_reminders(db, today, today), today, today)

\* The top of main.py, executed at the start of every script execution, within
\* one calendar day.
ScriptTop(db, today) == EnginePass(migrate_show_data(db), today)

----------------------------------------------------------------------------
(* Handlers of the widgets: what each does to the database when its button *)
(* or form was the one clicked                                             *)

\* form task_form_db: if submit and title.strip()
task_form_db(db, title, priority, due, desc) ==
    IF strip(title) # <<>>
    THEN [db EXCEPT !.tasks =
            Insert(db.tasks, Task(strip(title), priority, {due}, strip(desc), FALSE))]
    ELSE db

\* form quick_task_form: no due date, the default description
quick_task_form(db, title, priority) ==
    IF strip(title) # <<>>
    THEN [db EXCEPT !.tasks =
            Insert(db.tasks, Task(strip(title), priority, {}, <<>>, FALSE))]
    ELSE db

\* A handler that ticks the task off whatever it was.
task_done_set(db, id) ==
    IF id \in DOMAIN db.tasks
    THEN [db EXCEPT !.tasks[id].done = TRUE]
    ELSE db

\* button task_done_<id>
task_done(db, id) ==
    IF id \in DOMAIN db.tasks
    THEN [db EXCEPT !.tasks[id].done = ~ db.tasks[id].done]
    ELSE db

\* button task_del_<id>
task_del(db, id) ==
    IF id \in DOMAIN db.tasks
    THEN [db EXCEPT !.tasks = Delete(db.tasks, id)]
    ELSE db

\* form show_form_db
show_form_db(db, title, season, episode, total) ==
    IF strip(title) # <<>>
    THEN [db EXCEPT !.shows = Insert(db.shows, Show(strip(title), season, episode, total))]
    ELSE db

\* form quick_show_form: season 1, episode 0, total 0
quick_show_form(db, title) ==
    IF strip(title) # <<>>
    THEN [db EXCEPT !.shows = Insert(db.shows, Show(strip(title), 1, 0, 0))]
    ELSE db

\* An advance that counts the episode of the season only.
show_next_episode_only(db, id) ==
    IF id \in DOMAIN db.shows
    THEN [db EXCEPT !.shows[id].episode = db.shows[id].episode + 1]
    ELSE db

\* button show_next_<id>
show_next(db, id) ==
    IF id \in DOMAIN db.shows
    THEN [db EXCEPT !.shows[id].episode = db.shows[id].episode + 1,
                    !.shows[id].total_watched_episodes =
                        db.shows[id].total_watched_episodes + 1]
    ELSE db

\* A new season that also restarts the count of watched episodes.
show_new_season_reset_total(db, id) ==
    IF id \in DOMAIN db.shows
    THEN [db EXCEPT !.shows[id].season = db.shows[id].season + 1,
                    !.shows[id].episode = 0,
                    !.shows[id].total_watched_episodes = 0]
    ELSE db

\* button show_new_season_<id>
show_new_season(db, id) ==
    IF id \in DOMAIN db.shows
    THEN [db EXCEPT !.shows[id].season = db.shows[id].season + 1,
                    !.shows[id].episode = 0]
    ELSE db

\* button show_del_<id>
show_del(db, id) ==
    IF id \in DOMAIN db.shows
    THEN [db EXCEPT !.shows = Delete(db.shows, id)]
    ELSE db

\* form book_form_db
book_form_db(db, title, author, pages_total, pages_read) ==
    IF strip(title) # <<>>
    THEN [db EXCEPT !.books =
            Insert(db.books, Book(strip(title), strip(author), pages_total, pages_read))]
    ELSE db

\* form quick_book_form: pages_total 0, pages_read 0
quick_book_form(db, title, author) ==
    IF strip(title) # <<>>
    THEN [db EXCEPT !.books = Insert(db.books, Book(strip(title), strip(author), 0, 0))]
    ELSE db

\* book_inc_<id> as it would be with pages_read clamped to pages_total
book_inc_clamped(db, id, new_read) ==
    IF id \in DOMAIN db.books
    THEN [db EXCEPT !.books[id].pages_read =
                        Min({db.books[id].pages_read + new_read,
                             Max({db.books[id].pages_read, db.books[id].pages_total})})]
    ELSE db

\* button book_inc_<id>, with the number typed into book_add_<id>
book_inc(db, id, new_read) ==
    IF id \in DOMAIN db.books
    THEN [db EXCEPT !.books[id].pages_read = db.books[id].pages_read + new_read]
    ELSE db

\* book_del_<id> as it would be with a cascading delete
book_del_cascade(db, id) ==
    IF id \in DOMAIN db.books
    THEN [db EXCEPT !.books = Delete(db.books, id),
                    !.notifs = [n \in {m \in DOMAIN db.notifs :
                                         ~ (db.notifs[m].type = "achievement"
                                            /\ db.notifs[m].related_id = {id})}
                                |-> db.notifs[n]]]
    ELSE db

\* button book_del_<id>
book_del(db, id) ==
    IF id \in DOMAIN db.books
    THEN [db EXCEPT !.books = Delete(db.books, id)]
    ELSE db

\* form learning_form_db: log_date=date.today()
learning_form_db(db, topic, time_spent, notes, today) ==
    IF strip(topic) # <<>>
    THEN [db EXCEPT !.logs =
            Insert(db.logs, LearningLog(strip(topic), time_spent, strip(notes), today))]
    ELSE db

\* form quick_learning_form
quick_learning_form(db, topic, minutes, today) ==
    IF strip(topic) # <<>>
    THEN [db EXCEPT !.logs = Insert(db.logs, LearningLog(strip(topic), minutes, <<>>, today))]
    ELSE db

\* button learn_del_<id>
learn_del(db, id) ==
    IF id \in DOMAIN db.logs
    THEN [db EXCEPT !.logs = Delete(db.logs, id)]
    ELSE db

\* The sort keys of select(Task).order_by(Task.done.asc(), Task.due.is_(None),
\* Task.due.asc()), as SQLite compares them: False before True, and NULL
\* before every date.
DoneKey(task) == IF task.done THEN 1 ELSE 0

\* A query without the term Task.due.is_(None).
DueIsNoneIgnored(task) == 0

DueIsNone(task) == IF task.due = {} THEN 1 ELSE 0

DueKey(task) == IF task.due = {} THEN -1 ELSE Max(task.due)

\* ORDER BY: the row a comes before the row b.
TaskBefore(a, b) ==
    \/ DoneKey(a) < DoneKey(b)
    \/ DoneKey(a) = DoneKey(b) /\ DueIsNone(a) < DueIsNone(b)
    \/ DoneKey(a) = DoneKey(b) /\ DueIsNone(a) = DueIsNone(b) /\ DueKey(a) < DueKey(b)

\* The orders in which the query may return the rows: the next row is one
\* that no other row comes before; rows with equal keys come in an order
\* that SQL leaves open.
RECURSIVE TaskListings(_, _)
TaskListings(tsk, ids) ==
    IF ids = {} THEN {<<>>}
    ELSE UNION {{<<m>> \o rest : rest \in TaskListings(tsk, ids \ {m})} :
                m \in {i \in ids : \A o \in ids : ~ TaskBefore(tsk[o], tsk[i])}}

\* A query without the where clause.
UnreadNotificationsAll(db) == DOMAIN db.notifs

\* select(Notification).where(is_read == False): the rows of the panel
UnreadNotifications(db) == {n \in DOMAIN db.notifs : db.notifs[n].is_read = FALSE}

\* order_by(Notification.created_date.desc()): the orders in which the query
\* may return the rows; rows of one day come in an order that SQL leaves open.
RECURSIVE NewestFirst(_, _)
NewestFirst(ntf, ids) ==
    IF ids = {} THEN {<<>>}
    ELSE UNION {{<<m>> \o rest : rest \in NewestFirst(ntf, ids \ {m})} :
                m \in {i \in ids :
                          \A o \in ids : ntf[o].created_date <= ntf[i].created_date}}

\* get_unread_notifications(): the lists it may return
get_unread_notifications(db) == NewestFirst(db.notifs, UnreadNotifications(db))

\* A handler that flips is_read.
mark_notification_toggle(db, notification_id) ==
    IF notification_id \in DOMAIN db.notifs
    THEN [db EXCEPT !.notifs[notification_id].is_read =
                        ~ db.notifs[notification_id].is_read]
    ELSE db

\* mark_notification_read(notification_id)
mark_notification_read(db, notification_id) ==
    IF notification_id \in DOMAIN db.notifs
    THEN [db EXCEPT !.notifs[notification_id].is_read = TRUE]
    ELSE db

\* button "mark all as read": for notif in notifications: mark_notification_read
RECURSIVE mark_all_read_loop(_, _)
mark_all_read_loop(db, ids) ==
    IF ids = {} THEN db
    ELSE LET id == Min(ids)
         IN  mark_all_read_loop(mark_notification_read(db, id), ids \ {id})

mark_all_read(db) == mark_all_read_loop(db, UnreadNotifications(db))

\* A handler that sets every notification unread, whatever the id.
mark_unread_every(db, id) ==
    [db EXCEPT !.notifs =
        [n \in DOMAIN db.notifs |-> [db.notifs[n] EXCEPT !.is_read = FALSE]]]

\* button mark_unread_<id>
mark_unread(db, id) ==
    IF id \in DOMAIN db.notifs
    THEN [db EXCEPT !.notifs[id].is_read = FALSE]
    ELSE db

\* delete_<id> as it would be if it hid the row and kept it in the table
delete_notification_soft(db, id) ==
    IF id \in DOMAIN db.notifs
    THEN [db EXCEPT !.notifs[id].is_read = TRUE]
    ELSE db

\* button delete_<id> of the notifications tab
delete_notification(db, id) ==
    IF id \in DOMAIN db.notifs
    THEN [db EXCEPT !.notifs = Delete(db.notifs, id)]
    ELSE db

\* A button that empties the table of notifications.
clear_every(db) == [db EXCEPT !.notifs = EmptyTable]

\* button "clear all read"
clear_read(db) ==
    [db EXCEPT !.notifs =
        [id \in {n \in DOMAIN db.notifs : db.notifs[n].is_read = FALSE} |-> db.notifs[id]]]

----------------------------------------------------------------------------
(* Script executions                                                       *)

\* The database a script execution leaves behind.
Store(db) ==
    /\ tasks' = db.tasks
    /\ shows' = db.shows
    /\ books' = db.books
    /\ logs' = db.logs
    /\ notifs' = db.notifs
    /\ UNCHANGED <<clock, sess>>

\* The history variable: the widget that started the step and its argument,
\* in the specifications whose properties speak of the step taken.
Did(op, id) == last' = [op |-> op, id |-> id]

\* The script after st.rerun(): it starts again from its first line.
Rerun(db) == ScriptTop(db, clock)

\* What the script sees when it reaches the widgets: the database after the
\* top of the script has run.
Rendered == ScriptTop(DB, clock)

\* A page load or a browser refresh: no widget is clicked.
PageLoad == Store(Rendered)

\* A form whose title is empty after strip() saves nothing and does not call
\* st.rerun(); one that saves does.
SubmitTask(title, priority, due, desc) ==
    Store(IF strip(title) # <<>>
          THEN Rerun(task_form_db(Rendered, title, priority, due, desc))
          ELSE Rendered)

SubmitQuickTask(title, priority) ==
    Store(IF strip(title) # <<>>
          THEN Rerun(quick_task_form(Rendered, title, priority))
          ELSE Rendered)

ClickTaskDone(id) == Store(Rerun(task_done(Rendered, id)))

ClickTaskDel(id) == Store(Rerun(task_del(Rendered, id)))

SubmitShow(title, season, episode, total) ==
    Store(IF strip(title) # <<>>
          THEN Rerun(show_form_db(Rendered, title, season, episode, total))
          ELSE Rendered)

SubmitQuickShow(title) ==
    Store(IF strip(title) # <<>>
          THEN Rerun(quick_show_form(Rendered, title))
          ELSE Rendered)

ClickShowNext(id) == Store(Rerun(show_next(Rendered, id)))

ClickShowNewSeason(id) ==
    Store(Rerun(show_new_season(Rendered, id)))

ClickShowDel(id) == Store(Rerun(show_del(Rendered, id)))

SubmitBook(title, author, pages_total, pages_read) ==
    Store(IF strip(title) # <<>>
          THEN Rerun(book_form_db(Rendered, title, author, pages_total, pages_read))
          ELSE Rendered)

SubmitQuickBook(title, author) ==
    Store(IF strip(title) # <<>>
          THEN Rerun(quick_book_form(Rendered, title, author))
          ELSE Rendered)

ClickBookInc(id, new_read) ==
    Store(Rerun(book_inc(Rendered, id, new_read)))

ClickBookDel(id) == Store(Rerun(book_del(Rendered, id)))

SubmitLearning(topic, time_spent, notes) ==
    Store(IF strip(topic) # <<>>
          THEN Rerun(learning_form_db(Rendered, topic, time_spent, notes, clock))
          ELSE Rendered)

SubmitQuickLearning(topic, minutes) ==
    Store(IF strip(topic) # <<>>
          THEN Rerun(quick_learning_form(Rendered, topic, minutes, clock))
          ELSE Rendered)

ClickLearnDel(id) == Store(Rerun(learn_del(Rendered, id)))

\* The buttons read_deadline_<id>, read_achievement_<id>, read_motivation_<id>
\* of the panel and mark_read_<id> of the tab exist for unread rows only.
ClickMarkRead(id) ==
    /\ id \in UnreadNotifications(Rendered)
    /\ Store(Rerun(mark_notification_read(Rendered, id)))

\* The panel and its button are rendered only if there is an unread row.
ClickMarkAllRead ==
    /\ UnreadNotifications(Rendered) # {}
    /\ Store(Rerun(mark_all_read(Rendered)))

\* The button mark_unread_<id> exists for read rows only.
ClickMarkUnread(id) ==
    /\ id \in DOMAIN Rendered.notifs
    /\ Rendered.notifs[id].is_read
    /\ Store(Rerun(mark_unread(Rendered, id)))

ClickDeleteNotification(id) ==
    /\ id \in DOMAIN Rendered.notifs
    /\ Store(Rerun(delete_notification(Rendered, id)))

\* The button is rendered only if there is a notification.
ClickClearRead ==
    /\ DOMAIN Rendered.notifs # {}
    /\ Store(Rerun(clear_read(Rendered)))

\* Midnight: date.today() returns the next day from now on.
Midnight(last_day) ==
    /\ clock < last_day
    /\ clock' = clock + 1
    /\ UNCHANGED <<tasks, shows, books, logs, notifs, sess>>

----------------------------------------------------------------------------
(* Initial state: a new diary.db, the tables created empty by init_db()    *)

\* A script execution that is not running: pc is its position in main.py,
\* event the widget that started it, today, ids, n and found its local
\* variables today, upcoming_tasks / completed_books, the count or sum of the
\* rule at hand and existing.
Idle == [pc |-> "idle", event |-> "none", today |-> 0, ids |-> {}, n |-> 0, found |-> FALSE]

Init ==
    /\ tasks = EmptyTable
    /\ shows = EmptyTable
    /\ books = EmptyTable
    /\ logs = EmptyTable
    /\ notifs = EmptyTable
    /\ clock = 0
    /\ last = [op |-> "init", id |-> 0]
    /\ sess = <<Idle, Idle>>


\* What the user types into a title field.
TitleInputs == {<<>>, <<" ">>, <<" ", "a", " ">>}

\* selectbox "priority"
Priorities == {"Low", "Medium", "High"}

\* The days of a run are 0..MaxClock.
MaxClock == 1

\* The ids of the notifications stay within 1..bound.
NotifsWithin(bound) == \A n \in DOMAIN notifs' : n <= bound

\* A step of a specification that does not record it in last.
Quiet(bound) == NotifsWithin(bound) /\ UNCHANGED last

----------------------------------------------------------------------------
(* SpecShows: the Shows tab                                                *)

MaxShows == 1
MaxSeason == 2
MaxEpisode == 2

\* The ids of a table stay within 1..MaxShows: a new row is added only while
\* the id SQLite would assign is within the bound.
NextShows ==
    \/ PageLoad /\ Did("page_load", 0)
    \/ \E title \in TitleInputs, season \in 1..MaxSeason,
          episode \in 0..MaxEpisode, total \in {0, MaxEpisode} :
          /\ NextId(shows) <= MaxShows
          /\ SubmitShow(title, season, episode, total)
          /\ Did("show_form_db", 0)
    \/ \E title \in TitleInputs :
          /\ NextId(shows) <= MaxShows
          /\ SubmitQuickShow(title)
          /\ Did("quick_show_form", 0)
    \/ \E id \in DOMAIN shows :
          /\ shows[id].episode < MaxEpisode
          /\ ClickShowNext(id)
          /\ Did("show_next", id)
    \/ \E id \in DOMAIN shows :
          /\ shows[id].season < MaxSeason
          /\ ClickShowNewSeason(id)
          /\ Did("show_new_season", id)
    \/ \E id \in DOMAIN shows : ClickShowDel(id) /\ Did("show_del", id)
    \/ Midnight(MaxClock) /\ Did("midnight", 0)

SpecShows == Init /\ [][NextShows]_vars

\* The show after the button show_next_<id> was clicked twice, each click a
\* script execution of its own.
AdvancedTwice(id) ==
    LET once == Rerun(show_next(Rendered, id))
        twice == Rerun(show_next(ScriptTop(once, clock), id))
    IN  twice.shows[id]

\* C9: advance episode is both-or-neither.  In every step, a show that the
\* step advances has episode and total_watched_episodes each one larger after
\* the whole script execution (handler, rerun and backfill), and in every
\* other step neither counter of a show grows; two advances of a show with
\* episode 0 and total_watched_episodes 0 leave it with episode 2 and
\* total_watched_episodes 2 in the same season.
C9_AdvanceBothOrNeither ==
    [][/\ \A id \in DOMAIN shows \cap DOMAIN shows' :
            IF last'.op = "show_next" /\ last'.id = id
            THEN /\ shows'[id].episode = shows[id].episode + 1
                 /\ shows'[id].total_watched_episodes =
                        shows[id].total_watched_episodes + 1
            ELSE /\ shows'[id].episode <= shows[id].episode
                 /\ shows'[id].total_watched_episodes =
                        shows[id].total_watched_episodes
       /\ \A id \in DOMAIN shows :
            (shows[id].episode = 0 /\ shows[id].total_watched_episodes = 0)
            => /\ AdvancedTwice(id).episode = 2
               /\ AdvancedTwice(id).total_watched_episodes = 2
               /\ AdvancedTwice(id).season = shows[id].season
      ]_vars

\* C9 witness: a show of season 1 that was just advanced to episode 2 with two
\* episodes watched in all.
C9_Witness ==
    /\ last.op = "show_next"
    /\ last.id \in DOMAIN shows
    /\ shows[last.id].season = 1
    /\ shows[last.id].episode = 2
    /\ shows[last.id].total_watched_episodes = 2

\* C10: new season sets episode to 0, adds one to season and leaves
\* total_watched_episodes (and title and total) as they were, also after the
\* backfill of the rerun that follows the click; no other show changes.
C10_NewSeasonKeepsTotal ==
    [][last'.op = "show_new_season" =>
        /\ DOMAIN shows' = DOMAIN shows
        /\ last'.id \in DOMAIN shows
        /\ \A id \in DOMAIN shows :
            IF id = last'.id
            THEN shows'[id] = [shows[id] EXCEPT !.season = shows[id].season + 1,
                                                 !.episode = 0]
            ELSE shows'[id] = shows[id]
      ]_vars

\* C10 witness: the show (season 1, episode 2, 2 watched) after new season:
\* season 2, episode 0, 2 watched.
C10_Witness ==
    /\ last.op = "show_new_season"
    /\ last.id \in DOMAIN shows
    /\ shows[last.id].season = 2
    /\ shows[last.id].episode = 0
    /\ shows[last.id].total_watched_episodes = 2

\* C11: the counters of a show are monotone.  In every step (create, advance,
\* new season, delete of another show, page load, each with the backfill and
\* the engine pass of its script executions), for every show that exists
\* before and after: total_watched_episodes does not decrease, and episode
\* does not decrease unless the step is the new season of that show, which
\* leaves it at 0.
C11_ShowCountersMonotone ==
    [][\A id \in DOMAIN shows \cap DOMAIN shows' :
          /\ shows'[id].total_watched_episodes >= shows[id].total_watched_episodes
          /\ \/ shows'[id].episode >= shows[id].episode
             \/ /\ last'.op = "show_new_season"
                /\ last'.id = id
                /\ shows'[id].episode = 0
      ]_vars

\* C11 witness: a show saved by the form at its last episode, whose total the
\* backfill of the rerun has raised from 0 to that episode.
C11_Witness ==
    /\ last.op = "show_form_db"
    /\ \E id \in DOMAIN shows :
          /\ shows[id].episode = MaxEpisode
          /\ shows[id].total_watched_episodes = MaxEpisode


\* The databases the backfill may find in a state: the database as it is, and
\* as a handler of the Shows tab commits it before its rerun.
BeforeBackfill ==
    {DB}
    \cup {show_form_db(DB, <<"a">>, season, episode, 0) :
             season \in 1..MaxSeason, episode \in 0..MaxEpisode}
    \cup {show_next(DB, id) : id \in DOMAIN shows}
    \cup {show_new_season(DB, id) : id \in DOMAIN shows}

\* C22: the backfill is idempotent.  For the database of every reachable
\* state and for every database a handler of the Shows tab commits from it,
\* migrate_show_data gives the same shows with total_watched_episodes set to
\* episode where it was 0 and every other show and field as it was, leaves
\* the other tables alone, and applied a second time changes nothing more.
C22_BackfillIdempotent ==
    \A db \in BeforeBackfill :
        LET once == migrate_show_data(db)
        IN  /\ DOMAIN once.shows = DOMAIN db.shows
            /\ \A id \in DOMAIN db.shows :
                  once.shows[id] =
                      IF db.shows[id].total_watched_episodes = 0
                      THEN [db.shows[id] EXCEPT !.total_watched_episodes =
                                                    db.shows[id].episode]
                      ELSE db.shows[id]
            /\ once = [db EXCEPT !.shows = once.shows]
            /\ migrate_show_data(once) = once

\* C22 witness: a show with watched episodes is there, and the form saves a
\* second one at its last episode with none counted: the backfill changes
\* the second and not the first.
C22_Witness ==
    /\ \E id \in DOMAIN shows :
          shows[id].total_watched_episodes > shows[id].episode
    /\ \E db \in BeforeBackfill :
          /\ migrate_show_data(db) # db
          /\ \E id \in DOMAIN db.shows \ DOMAIN shows :
                migrate_show_data(db).shows[id].total_watched_episodes = MaxEpisode
          /\ \A id \in DOMAIN shows : migrate_show_data(db).shows[id] = shows[id]

\* C26: the watched total is never below the episode.  In every reachable
\* state, each of them the end of a script execution that began with the
\* backfill, every show has total_watched_episodes >= episode; the same holds
\* after each further script execution that saves a show with an initial
\* episode, advances a show or starts a new season of it.
C26_WatchedTotalAtLeastEpisode ==
    LET Holds(shws) ==
            \A id \in DOMAIN shws : shws[id].total_watched_episodes >= shws[id].episode
    IN  /\ Holds(shows)
        /\ \A season \in 1..MaxSeason, episode \in 0..MaxEpisode :
              Holds(Rerun(show_form_db(Rendered, <<"a">>, season, episode, 0)).shows)
        /\ \A id \in DOMAIN shows :
              /\ Holds(Rerun(show_next(Rendered, id)).shows)
              /\ Holds(Rerun(show_new_season(Rendered, id)).shows)

\* C26 witness: a show saved at its last episode, taken to a new season and
\* advanced once: episode 1 of season 2 with one more than MaxEpisode
\* watched.
C26_Witness ==
    /\ last.op = "show_next"
    /\ last.id \in DOMAIN shows
    /\ shows[last.id].season = 2
    /\ shows[last.id].episode = 1
    /\ shows[last.id].total_watched_episodes = MaxEpisode + 1
----------------------------------------------------------------------------
(* SpecDeadline: the Tasks tab over several days                           *)

MaxTasks == 2

\* The dates picked in date_input "due": with the clock at 0 or 1 they are
\* today, tomorrow, yesterday, three days ahead and four days ahead.
DueInputs == {0, 1, ReminderWindow + 1}

\* No more notifications than one per task and day.
MaxNotifs == MaxTasks * (MaxClock + 1)

NextDeadline ==
    \/ PageLoad /\ Quiet(MaxNotifs)
    \/ \E title \in TitleInputs, due \in DueInputs :
          /\ NextId(tasks) <= MaxTasks
          /\ SubmitTask(title, "Medium", due, <<>>)
          /\ Quiet(MaxNotifs)
    \/ \E title \in TitleInputs :
          /\ NextId(tasks) <= MaxTasks
          /\ SubmitQuickTask(title, "Medium")
          /\ Quiet(MaxNotifs)
    \/ \E id \in DOMAIN tasks : ClickTaskDone(id) /\ Quiet(MaxNotifs)
    \/ Midnight(MaxClock) /\ UNCHANGED last

SpecDeadline == Init /\ [][NextDeadline]_vars

\* A task the deadline rule is about: due set, today <= due <= today + 3,
\* not done.
Eligible(task, today) ==
    /\ task.due # {}
    /\ \A d \in task.due : today <= d /\ d <= today + 3
    /\ ~ task.done

\* The deadline notifications of a task created on a day.
DeadlineOf(ntf, task_id, today) ==
    {n \in DOMAIN ntf : /\ ntf[n].type = "deadline"
                        /\ ntf[n].related_id = {task_id}
                        /\ ntf[n].created_date = today}

\* C1: deadline reminders are idempotent.  From every reachable state, after
\* check_deadline_reminders has run twice on the same day every eligible task
\* has exactly one deadline notification with its id created that day, and
\* the second run has created nothing.
C1_DeadlineIdempotent ==
    LET once == check_deadline_reminders(DB, clock, clock)
        twice == check_deadline_reminders(once, clock, clock)
    IN  /\ twice = once
        /\ \A id \in DOMAIN tasks :
              Eligible(tasks[id], clock)
              => Cardinality(DeadlineOf(twice.notifs, id, clock)) = 1

\* C1 witness: the morning after midnight, two eligible tasks have no
\* notification of the day yet, and the first of the two runs creates them.
C1_Witness ==
    /\ Cardinality({id \in DOMAIN tasks :
            Eligible(tasks[id], clock) /\ DeadlineOf(notifs, id, clock) = {}}) = 2
    /\ check_deadline_reminders(DB, clock, clock) # DB

\* C7: a pass creates deadline notifications for eligible tasks only.  From
\* every reachable state, each notification check_deadline_reminders adds is
\* of type deadline and carries the id of a task that has a due date within
\* today..today+3 and is not done.
C7_DeadlineEligibility ==
    LET once == check_deadline_reminders(DB, clock, clock)
    IN  \A n \in DOMAIN once.notifs \ DOMAIN notifs :
            /\ once.notifs[n].type = "deadline"
            /\ \E id \in DOMAIN tasks :
                  once.notifs[n].related_id = {id} /\ Eligible(tasks[id], clock)

\* C7 witness: a pass that has a notification to create while another task,
\* not done, is overdue since yesterday.
C7_Witness ==
    /\ check_deadline_reminders(DB, clock, clock) # DB
    /\ \E id \in DOMAIN tasks : ~ tasks[id].done /\ \E d \in tasks[id].due : d < clock

\* C14: toggle done flips the done flag only.  From every reachable state
\* and for every task: the handler changes done of that task to its
\* opposite and nothing else in the database; a second toggle gives the
\* database back; and after the whole script execution of the click (with
\* its rerun) the table of tasks differs from the one before in that flag
\* only.
C14_ToggleDoneOnly ==
    \A id \in DOMAIN tasks :
        LET once == task_done(DB, id)
            twice == task_done(once, id)
            flipped == [tasks EXCEPT ![id].done = ~ tasks[id].done]
        IN  /\ once = [DB EXCEPT !.tasks = flipped]
            /\ twice = DB
            /\ Rerun(task_done(Rendered, id)).tasks = flipped

\* C14 witness: a task with a due date has been ticked off while another,
\* without one, is still open.
C14_Witness ==
    \E a, b \in DOMAIN tasks :
        /\ tasks[a].done /\ tasks[a].due # {}
        /\ ~ tasks[b].done /\ tasks[b].due = {}

----------------------------------------------------------------------------
(* SpecMulti: tasks due today are added and ticked off, day after day      *)

MaxMultiTasks == 4

\* date_input "due" is left at its default, today.
NextMulti ==
    \/ PageLoad /\ UNCHANGED last
    \/ /\ NextId(tasks) <= MaxMultiTasks
       /\ SubmitTask(<<"a">>, "Medium", clock, <<>>)
       /\ UNCHANGED last
    \/ \E id \in DOMAIN tasks : ClickTaskDone(id) /\ UNCHANGED last
    \/ Midnight(MaxClock) /\ UNCHANGED last

SpecMulti == Init /\ [][NextMulti]_vars

\* The tasks that are done and due on a day.
DoneDueOn(day) == {id \in DOMAIN tasks : tasks[id].done /\ tasks[id].due = {day}}

\* The multi-task achievement notifications created on a day.
MultiOf(ntf, day) ==
    {n \in DOMAIN ntf : /\ ntf[n].type = "achievement"
                        /\ ntf[n].title = "multiple tasks completed"
                        /\ ntf[n].created_date = day}

\* C3: the multi-task achievement threshold.  In every reachable state: with
\* fewer than 3 tasks done and due today (so with exactly 2) a pass creates no
\* multi-task notification; with 3 or more a pass leaves exactly one such
\* notification created today, which it creates if there was none; at most
\* one exists per day, however the count grows.
C3_MultiTaskThreshold ==
    LET count == Cardinality(DoneDueOn(clock))
        pass == check_achievements(DB, clock, clock)
        new == MultiOf(pass.notifs, clock) \ MultiOf(notifs, clock)
    IN  /\ count < 3 => new = {}
        /\ count >= 3 => Cardinality(MultiOf(pass.notifs, clock)) = 1
        /\ (count >= 3 /\ MultiOf(notifs, clock) = {}) => Cardinality(new) = 1
        /\ \A day \in 0..clock : Cardinality(MultiOf(notifs, day)) <= 1
        /\ \A day \in 0..clock : MultiOf(pass.notifs, day) \ new = MultiOf(notifs, day)

\* C3 witness: four tasks are done and due today, and the one multi-task
\* notification of today is the one created when the third was ticked off.
C3_Witness ==
    /\ Cardinality(DoneDueOn(clock)) = 4
    /\ Cardinality(MultiOf(notifs, clock)) = 1
    /\ \A n \in MultiOf(notifs, clock) : notifs[n].message.n = 3

----------------------------------------------------------------------------
(* SpecBooks: the Books tab and the notifications tab over several days    *)

MaxBooks == 1
MaxPages == 2
MaxPasses == 3

\* A book has at most one notification at a time; the ids go one further
\* when a notification is deleted and created again.
MaxBookNotifs == MaxBooks + 1

NextBooks ==
    \/ PageLoad /\ Quiet(MaxBookNotifs)
    \/ \E pages_total \in 0..MaxPages, pages_read \in 0..MaxPages :
          /\ NextId(books) <= MaxBooks
          /\ SubmitBook(<<"a">>, <<>>, pages_total, pages_read)
          /\ Quiet(MaxBookNotifs)
    \/ \E title \in TitleInputs :
          /\ NextId(books) <= MaxBooks
          /\ SubmitQuickBook(title, <<>>)
          /\ Quiet(MaxBookNotifs)
    \/ \E id \in DOMAIN books, new_read \in {1, MaxPages} :
          /\ books[id].pages_read + new_read <= MaxPages + 2
          /\ ClickBookInc(id, new_read)
          /\ Quiet(MaxBookNotifs)
    \/ \E id \in DOMAIN books : ClickBookDel(id) /\ Quiet(MaxBookNotifs)
    \/ \E id \in DOMAIN notifs : ClickMarkRead(id) /\ Quiet(MaxBookNotifs)
    \/ \E id \in DOMAIN notifs : ClickMarkUnread(id) /\ Quiet(MaxBookNotifs)
    \/ \E id \in DOMAIN notifs : ClickDeleteNotification(id) /\ Quiet(MaxBookNotifs)
    \/ Midnight(MaxClock) /\ UNCHANGED last

SpecBooks == Init /\ [][NextBooks]_vars

\* The books that are read to the end: pages_total > 0, pages_read >= pages_total.
Finished(bks) ==
    {id \in DOMAIN bks : bks[id].pages_total > 0 /\ bks[id].pages_read >= bks[id].pages_total}

\* The achievement notifications that carry the id of a book.
BookNotifs(ntf, book_id) ==
    {n \in DOMAIN ntf : ntf[n].type = "achievement" /\ ntf[n].related_id = {book_id}}

\* n passes of the engine in a row on a day.
RECURSIVE Passes(_, _, _)
Passes(db, today, n) == IF n = 0 THEN db ELSE Passes(EnginePass(db, today), today, n - 1)

\* The databases a pass may start from in a state: the database as it is, and
\* as the handler of delete_<id> commits it before its rerun.
BeforePass == {DB} \cup {delete_notification(DB, n) : n \in DOMAIN notifs}

\* C4: the book-completed notification is idempotent.  From every reachable
\* state, also with one notification just deleted, after N = 1..MaxPasses
\* consecutive passes every finished book has exactly one achievement
\* notification with its id.
C4_BookIdempotent ==
    \A db \in BeforePass, n \in 1..MaxPasses :
        \A id \in Finished(books) :
            Cardinality(BookNotifs(Passes(db, clock, n).notifs, id)) = 1

\* C4 witness: a finished book has its notification, marked read; with the
\* notification deleted the first pass creates it again and the later passes
\* create nothing.
C4_Witness ==
    /\ \E id \in Finished(books) :
          /\ Cardinality(BookNotifs(notifs, id)) = 1
          /\ \A n \in BookNotifs(notifs, id) : notifs[n].is_read
    /\ \A db \in BeforePass \ {DB} :
          /\ EnginePass(db, clock) # db
          /\ Passes(db, clock, MaxPasses) = EnginePass(db, clock)

\* C5: the book-completed notification is once-ever.  In every reachable
\* state no book id has two achievement notifications, whatever their
\* created_date, and a pass on the current or any later day creates none for
\* a book that has one.
C5_BookOnceEver ==
    /\ \A id \in 1..MaxBooks : Cardinality(BookNotifs(notifs, id)) <= 1
    /\ \A day \in clock..(MaxClock + 1) :
          \A id \in 1..MaxBooks :
              BookNotifs(notifs, id) # {}
              => BookNotifs(EnginePass(DB, day).notifs, id) = BookNotifs(notifs, id)

\* C5 witness: the day after a book was finished its only notification is
\* yesterday's, and the pass of today has nothing to add.
C5_Witness ==
    /\ clock = 1
    /\ \E a \in Finished(books) :
          /\ Cardinality(BookNotifs(notifs, a)) = 1
          /\ \A n \in BookNotifs(notifs, a) : notifs[n].created_date = 0
    /\ EnginePass(DB, clock) = DB

\* C15: mark read and mark unread are idempotent.  From every reachable
\* state and for every notification: mark_notification_read gives the
\* database with is_read of that notification TRUE and nothing else changed,
\* which is the database itself if the notification was read already, and a
\* second and a third application change nothing more; the handler of
\* mark_unread_<id> does the same with FALSE.
C15_MarkReadIdempotent ==
    \A id \in DOMAIN notifs :
        LET read == mark_notification_read(DB, id)
            unread == mark_unread(DB, id)
        IN  /\ read = [DB EXCEPT !.notifs[id].is_read = TRUE]
            /\ mark_notification_read(read, id) = read
            /\ mark_notification_read(mark_notification_read(read, id), id) = read
            /\ (notifs[id].is_read => read = DB)
            /\ unread = [DB EXCEPT !.notifs[id].is_read = FALSE]
            /\ mark_unread(unread, id) = unread
            /\ (~ notifs[id].is_read => unread = DB)

\* C15 witness: a notification of yesterday was marked read: marking it read
\* again changes nothing, marking it unread does.
C15_Witness ==
    \E id \in DOMAIN notifs :
        /\ notifs[id].is_read
        /\ notifs[id].created_date < clock
        /\ mark_notification_read(DB, id) = DB
        /\ mark_unread(DB, id) # DB


\* C19: the button "add pages" does not clamp.  From every reachable state,
\* for every book and every delta of 0..MaxPages + 1 typed into book_add_<id>,
\* the handler commits the database with pages_read of that book larger by
\* delta and nothing else changed, pages_total included; and if the book
\* then has pages_total > 0 and pages_read above it, the rerun leaves it
\* with exactly one achievement notification of its id.
C19_AddPagesNoClamp ==
    \A id \in DOMAIN books, delta \in 0..(MaxPages + 1) :
        LET added == book_inc(DB, id, delta)
        IN  /\ added = [DB EXCEPT !.books[id].pages_read = books[id].pages_read + delta]
            /\ added.books[id].pages_total = books[id].pages_total
            /\ (/\ books[id].pages_total > 0
                /\ books[id].pages_read + delta > books[id].pages_total)
               => Cardinality(BookNotifs(Rerun(added).notifs, id)) = 1

\* C19 witness: a book that was short of its pages_total got more pages than
\* were left: pages_read is above what the form accepts and above
\* pages_total, and the book has its unread notification of today.
C19_Witness ==
    \E id \in DOMAIN books :
        /\ books[id].pages_total > 0
        /\ books[id].pages_read > MaxPages
        /\ books[id].pages_read > books[id].pages_total
        /\ \E n \in BookNotifs(notifs, id) :
              ~ notifs[n].is_read /\ notifs[n].created_date = clock
----------------------------------------------------------------------------
(* SpecLearning: the learning tab over several days                        *)

MaxLogs == 3

\* The minutes typed into number_input "minutes": two of the first two add
\* up to 58, 59 or 60.
MinuteInputs == {29, 30, 60}

\* At most one motivation notification per day; the ids go one further when
\* a notification is deleted and created again.
MaxLearnNotifs == MaxClock + 2

NextLearning ==
    \/ PageLoad /\ Quiet(MaxLearnNotifs)
    \/ \E time_spent \in MinuteInputs :
          /\ NextId(logs) <= MaxLogs
          /\ SubmitLearning(<<"a">>, time_spent, <<>>)
          /\ Quiet(MaxLearnNotifs)
    \/ \E topic \in TitleInputs :
          /\ NextId(logs) <= MaxLogs
          /\ SubmitQuickLearning(topic, 30)
          /\ Quiet(MaxLearnNotifs)
    \/ \E id \in DOMAIN notifs : ClickDeleteNotification(id) /\ Quiet(MaxLearnNotifs)
    \/ Midnight(MaxClock) /\ UNCHANGED last

SpecLearning == Init /\ [][NextLearning]_vars

\* The minutes logged on a day, added up log by log.
RECURSIVE MinutesUpTo(_, _)
MinutesUpTo(i, day) ==
    IF i = 0 THEN 0
    ELSE MinutesUpTo(i - 1, day)
         + (IF i \in DOMAIN logs /\ logs[i].log_date = day THEN logs[i].minutes ELSE 0)

MinutesOn(day) == MinutesUpTo(NextId(logs) - 1, day)

\* The motivation notifications created on a day.
MotivationOf(ntf, day) ==
    {n \in DOMAIN ntf : /\ ntf[n].type = "motivation"
                        /\ ntf[n].title = "intensive learning"
                        /\ ntf[n].created_date = day}

\* C6: the learning-intensity threshold.  From every reachable state, also
\* with one notification just deleted: if the minutes of the logs dated today
\* sum to less than 60 (so to 59) a pass creates no motivation notification;
\* if they sum to 60 or more, one pass and two passes both leave exactly one
\* motivation notification created today.  Logs of another day are not part
\* of the sum.
C6_LearningThreshold ==
    \A db \in BeforePass :
        LET once == EnginePass(db, clock)
            twice == EnginePass(once, clock)
        IN  /\ MinutesOn(clock) < 60
               => MotivationOf(once.notifs, clock) = MotivationOf(db.notifs, clock)
            /\ MinutesOn(clock) >= 60
               => /\ Cardinality(MotivationOf(once.notifs, clock)) = 1
                  /\ Cardinality(MotivationOf(twice.notifs, clock)) = 1
            /\ twice = once

\* C6 witness: 59 minutes today and no motivation notification of today,
\* after a day of 60 minutes that earned one.
C6_Witness ==
    /\ clock = 1
    /\ MinutesOn(1) = 59
    /\ MinutesOn(0) = 60
    /\ MotivationOf(notifs, 1) = {}
    /\ Cardinality(MotivationOf(notifs, 0)) = 1

----------------------------------------------------------------------------
(* Spec: one day of the diary, with rows in all four tabs                  *)

MaxRows == 5

\* The number of rows of the four tabs.
Rows ==
    Cardinality(DOMAIN tasks) + Cardinality(DOMAIN shows)
    + Cardinality(DOMAIN books) + Cardinality(DOMAIN logs)

Next ==
    \/ PageLoad /\ UNCHANGED last
    \/ /\ Rows < MaxRows
       /\ SubmitTask(<<"a">>, "Medium", clock, <<>>)
       /\ UNCHANGED last
    \/ \E id \in DOMAIN tasks : ClickTaskDone(id) /\ UNCHANGED last
    \/ /\ Rows < MaxRows
       /\ SubmitQuickShow(<<"a">>)
       /\ UNCHANGED last
    \/ /\ Rows < MaxRows
       /\ SubmitBook(<<"a">>, <<>>, 1, 1)
       /\ UNCHANGED last
    \/ /\ Rows < MaxRows
       /\ SubmitLearning(<<"a">>, LearningThreshold, <<>>)
       /\ UNCHANGED last
    \/ ClickMarkAllRead /\ UNCHANGED last

Spec == Init /\ [][Next]_vars

\* C8: the engine frame.  From every reachable state, also with one
\* notification just deleted, a pass of the engine leaves the tables of tasks,
\* shows, books and learning logs as they are and leaves every notification
\* that exists in place and unchanged: all it does is add notifications.
C8_EngineFrame ==
    \A db \in BeforePass :
        LET pass == EnginePass(db, clock)
        IN  /\ pass.tasks = db.tasks
            /\ pass.shows = db.shows
            /\ pass.books = db.books
            /\ pass.logs = db.logs
            /\ \A n \in DOMAIN db.notifs :
                  n \in DOMAIN pass.notifs /\ pass.notifs[n] = db.notifs[n]

\* C8 witness: three tasks are done, a book is finished and an hour of
\* learning is logged; the notifications of all three types are there and
\* read, and with one of them deleted the pass adds a notification.
C8_Witness ==
    /\ DOMAIN books # {} /\ DOMAIN logs # {}
    /\ Cardinality(DoneDueOn(clock)) = 3
    /\ \E n \in DOMAIN notifs : notifs[n].type = "deadline"
    /\ \E n \in DOMAIN notifs : notifs[n].type = "achievement"
    /\ \E n \in DOMAIN notifs : notifs[n].type = "motivation"
    /\ \A n \in DOMAIN notifs : notifs[n].is_read
    /\ \E db \in BeforePass :
          DOMAIN EnginePass(db, clock).notifs # DOMAIN db.notifs

\* The ids a stale page can still show for a table: those of its rows and the
\* one after them.
ViewIds(table) == 1..NextId(table)

\* C12: a mutation on a missing id is a silent no-op.  From every reachable
\* state and for every id a page can show, once the row of that id is gone
\* (deleted by its own delete handler, or never there), toggle done, delete,
\* advance episode, new season, add pages, delete of a log, mark read, mark
\* unread and delete of a notification return the database as it was, every
\* table unchanged.
C12_MissingIdNoOp ==
    /\ \A id \in ViewIds(tasks) :
          LET db == task_del(DB, id)
          IN  task_done(db, id) = db /\ task_del(db, id) = db
    /\ \A id \in ViewIds(shows) :
          LET db == show_del(DB, id)
          IN  /\ show_next(db, id) = db
              /\ show_new_season(db, id) = db
              /\ show_del(db, id) = db
    /\ \A id \in ViewIds(books) :
          LET db == book_del(DB, id)
          IN  /\ \A new_read \in 0..2 : book_inc(db, id, new_read) = db
              /\ book_del(db, id) = db
    /\ \A id \in ViewIds(logs) :
          LET db == learn_del(DB, id)
          IN  learn_del(db, id) = db
    /\ \A id \in ViewIds(notifs) :
          LET db == delete_notification(DB, id)
          IN  /\ mark_notification_read(db, id) = db
              /\ mark_unread(db, id) = db
              /\ delete_notification(db, id) = db

\* C12 witness: every table has a row, the notifications are read and more
\* than one, so that a page drawn before one of them was deleted shows an id
\* that is gone while rows that a handler could touch remain.
C12_Witness ==
    /\ DOMAIN tasks # {} /\ DOMAIN shows # {}
    /\ DOMAIN books # {} /\ DOMAIN logs # {}
    /\ Cardinality(DOMAIN notifs) > 1
    /\ \A n \in DOMAIN notifs : notifs[n].is_read
    /\ \A id \in DOMAIN notifs :
          /\ id \notin DOMAIN delete_notification(DB, id).notifs
          /\ DOMAIN delete_notification(DB, id).notifs # {}

----------------------------------------------------------------------------
(* SpecRace: two script executions at once (two page loads, or a page load *)
(* during the rerun after a form), each statement of the engine a step     *)

MaxRaceRows == 1

Sessions == {1, 2}

\* The forms a script execution is started by, besides a plain page load.
RaceEvents == {"none", "task_form_db", "book_form_db", "learning_form_db"}

\* The table a form adds a row to.
RaceTable(event) ==
    IF event = "task_form_db" THEN tasks
    ELSE IF event = "book_form_db" THEN books
    ELSE logs

\* The session s moves to pc, with its local variables as given.
Goto(s, pc, today, ids, n, found) ==
    sess' = [sess EXCEPT ![s] = [pc |-> pc, event |-> sess[s].event, today |-> today,
                                 ids |-> ids, n |-> n, found |-> found]]

\* The session s moves to pc and keeps its local variables.
Jump(s, pc) == sess' = [sess EXCEPT ![s].pc = pc]

\* A browser starts a script execution: a page load, or the submit of a form,
\* one form at a time and only while its table has room.
RaceBegin(s, event) ==
    /\ sess[s].pc = "idle"
    /\ event # "none" =>
          /\ \A o \in Sessions : sess[o].event = "none"
          /\ NextId(RaceTable(event)) <= MaxRaceRows
    /\ sess' = [sess EXCEPT ![s] = [Idle EXCEPT !.pc = "migrate", !.event = event]]
    /\ UNCHANGED <<tasks, shows, books, logs, notifs, clock, last>>

\* main.py line 243
RaceMigrate(s) ==
    /\ sess[s].pc = "migrate"
    /\ shows' = migrate_show_data(DB).shows
    /\ Jump(s, "deadline_select")
    /\ UNCHANGED <<tasks, books, logs, notifs, clock, last>>

\* check_deadline_reminders: today = date.today() and the select of
\* upcoming_tasks
RaceDeadlineSelect(s) ==
    /\ sess[s].pc = "deadline_select"
    /\ Goto(s, "deadline_check", clock, UpcomingTasks(tasks, clock), 0, FALSE)
    /\ UNCHANGED <<tasks, shows, books, logs, notifs, clock, last>>

\* The dedup query for the next task of the loop, or the end of the loop.
RaceDeadlineCheck(s) ==
    /\ sess[s].pc = "deadline_check"
    /\ IF sess[s].ids = {}
       THEN Jump(s, "multi_check")
       ELSE Goto(s, "deadline_insert", sess[s].today, sess[s].ids, 0,
                 DeadlineExisting(notifs, Min(sess[s].ids), sess[s].today) # {})
    /\ UNCHANGED <<tasks, shows, books, logs, notifs, clock, last>>

\* if not existing: session.add(notification); session.commit()
RaceDeadlineInsert(s) ==
    /\ sess[s].pc = "deadline_insert"
    /\ LET id == Min(sess[s].ids)
           days_left == Max(tasks[id].due) - sess[s].today
       IN  /\ notifs' = IF sess[s].found THEN notifs
                        ELSE Insert(notifs,
                                    Notification("deadline", DeadlineTitle,
                                                 DeadlineMessage(days_left, tasks[id].title),
                                                 {id}, clock))
           /\ Goto(s, "deadline_check", sess[s].today, sess[s].ids \ {id}, 0, FALSE)
    /\ UNCHANGED <<tasks, shows, books, logs, clock, last>>

\* check_achievements: today = date.today(), the select of today_tasks, the
\* threshold and the dedup query; found says that nothing is to be inserted.
RaceMultiCheck(s) ==
    /\ sess[s].pc = "multi_check"
    /\ LET count == Cardinality(TodayDoneTasks(tasks, clock))
       IN  Goto(s, "multi_insert", clock, {}, count,
                ~ MultiTaskReached(count) \/ MultiTaskExisting(notifs, clock) # {})
    /\ UNCHANGED <<tasks, shows, books, logs, notifs, clock, last>>

RaceMultiInsert(s) ==
    /\ sess[s].pc = "multi_insert"
    /\ notifs' = IF sess[s].found THEN notifs
                 ELSE Insert(notifs, Notification("achievement", MultiTaskTitle,
                                                  Message("multi", sess[s].n, <<>>),
                                                  {}, clock))
    /\ Jump(s, "book_select")
    /\ UNCHANGED <<tasks, shows, books, logs, clock, last>>

\* the select of completed_books
RaceBookSelect(s) ==
    /\ sess[s].pc = "book_select"
    /\ Goto(s, "book_check", sess[s].today, CompletedBooks(books), 0, FALSE)
    /\ UNCHANGED <<tasks, shows, books, logs, notifs, clock, last>>

RaceBookCheck(s) ==
    /\ sess[s].pc = "book_check"
    /\ IF sess[s].ids = {}
       THEN Jump(s, "learning_check")
       ELSE Goto(s, "book_insert", sess[s].today, sess[s].ids, 0,
                 BookExisting(notifs, Min(sess[s].ids), sess[s].today) # {})
    /\ UNCHANGED <<tasks, shows, books, logs, notifs, clock, last>>

RaceBookInsert(s) ==
    /\ sess[s].pc = "book_insert"
    /\ LET id == Min(sess[s].ids)
       IN  /\ notifs' = IF sess[s].found THEN notifs
                        ELSE Insert(notifs,
                                    Notification("achievement", BookTitle,
                                                 Message("book", 0, books[id].title),
                                                 {id}, clock))
           /\ Goto(s, "book_check", sess[s].today, sess[s].ids \ {id}, 0, FALSE)
    /\ UNCHANGED <<tasks, shows, books, logs, clock, last>>

\* the select of learning_logs, the sum, the threshold and the dedup query
RaceLearningCheck(s) ==
    /\ sess[s].pc = "learning_check"
    /\ LET total_today_minutes ==
               SumMinutes(logs, LearningLogsToday(logs, sess[s].today))
       IN  Goto(s, "learning_insert", sess[s].today, {}, total_today_minutes,
                \/ total_today_minutes < LearningThreshold
                \/ LearningExisting(notifs, sess[s].today) # {})
    /\ UNCHANGED <<tasks, shows, books, logs, notifs, clock, last>>

RaceLearningInsert(s) ==
    /\ sess[s].pc = "learning_insert"
    /\ notifs' = IF sess[s].found THEN notifs
                 ELSE Insert(notifs, Notification("motivation", LearningTitle,
                                                  Message("learning", sess[s].n, <<>>),
                                                  {}, clock))
    /\ Jump(s, "widgets")
    /\ UNCHANGED <<tasks, shows, books, logs, clock, last>>

\* What the form of the event saves.
RaceHandler(event) ==
    IF event = "task_form_db" THEN task_form_db(DB, <<"a">>, "Medium", clock, <<>>)
    ELSE IF event = "book_form_db" THEN book_form_db(DB, <<"a">>, <<>>, 1, 1)
    ELSE learning_form_db(DB, <<"a">>, LearningThreshold, <<>>, clock)

\* The rest of the script: the page is drawn and the execution ends, or the
\* submitted form saves its row and calls st.rerun().
RaceWidgets(s) ==
    /\ sess[s].pc = "widgets"
    /\ IF sess[s].event = "none"
       THEN /\ sess' = [sess EXCEPT ![s] = Idle]
            /\ UNCHANGED <<tasks, shows, books, logs, notifs>>
       ELSE /\ sess' = [sess EXCEPT ![s] = [Idle EXCEPT !.pc = "migrate"]]
            /\ tasks' = RaceHandler(sess[s].event).tasks
            /\ books' = RaceHandler(sess[s].event).books
            /\ logs' = RaceHandler(sess[s].event).logs
            /\ UNCHANGED <<shows, notifs>>
    /\ UNCHANGED <<clock, last>>

NextRace ==
    \/ \E s \in Sessions, event \in RaceEvents : RaceBegin(s, event)
    \/ \E s \in Sessions : RaceMigrate(s)
    \/ \E s \in Sessions : RaceDeadlineSelect(s)
    \/ \E s \in Sessions : RaceDeadlineCheck(s)
    \/ \E s \in Sessions : RaceDeadlineInsert(s)
    \/ \E s \in Sessions : RaceMultiCheck(s)
    \/ \E s \in Sessions : RaceMultiInsert(s)
    \/ \E s \in Sessions : RaceBookSelect(s)
    \/ \E s \in Sessions : RaceBookCheck(s)
    \/ \E s \in Sessions : RaceBookInsert(s)
    \/ \E s \in Sessions : RaceLearningCheck(s)
    \/ \E s \in Sessions : RaceLearningInsert(s)
    \/ \E s \in Sessions : RaceWidgets(s)

SpecRace == Init /\ [][NextRace]_vars

\* Two notifications have the same dedup key.
SameKey(x, y) ==
    \/ /\ x.type = "deadline" /\ y.type = "deadline"
       /\ x.related_id = y.related_id /\ x.created_date = y.created_date
    \/ /\ x.type = "achievement" /\ y.type = "achievement"
       /\ x.title = MultiTaskTitle /\ y.title = MultiTaskTitle
       /\ x.created_date = y.created_date
    \/ /\ x.type = "motivation" /\ y.type = "motivation"
       /\ x.title = LearningTitle /\ y.title = LearningTitle
       /\ x.created_date = y.created_date
    \/ /\ x.type = "achievement" /\ y.type = "achievement"
       /\ x.related_id # {} /\ x.related_id = y.related_id

\* C2: no duplicates under overlapping passes.  In every state of two
\* script executions whose engine passes interleave statement by statement,
\* no two notifications of the store have the same dedup key.
C2_NoDuplicateKeys ==
    \A a, b \in DOMAIN notifs : a # b => ~ SameKey(notifs[a], notifs[b])

----------------------------------------------------------------------------
(* SpecList: the list of the Tasks tab, its buttons clicked in the order   *)
(* drawn                                                                   *)

MaxListTasks == 4

\* The button of the row at a position of the list as the page draws it.
ClickListedTaskDone ==
    \E listing \in TaskListings(Rendered.tasks, DOMAIN Rendered.tasks) :
        \E i \in 1..Len(listing) : ClickTaskDone(listing[i])

NextList ==
    \/ \E due \in DueInputs :
          /\ NextId(tasks) <= MaxListTasks
          /\ SubmitTask(<<"a">>, "Medium", due, <<>>)
          /\ UNCHANGED last
    \/ /\ NextId(tasks) <= MaxListTasks
       /\ SubmitQuickTask(<<"a">>, "Medium")
       /\ UNCHANGED last
    \/ ClickListedTaskDone /\ UNCHANGED last

SpecList == Init /\ [][NextList]_vars

\* The order of the listing puts the task a strictly before the task b: a is
\* open and b done; or they agree on done, a has a due date and b has none;
\* or they agree on done, both have a due date and that of a is earlier.
ListedBefore(a, b) ==
    \/ ~ a.done /\ b.done
    \/ a.done = b.done /\ a.due # {} /\ b.due = {}
    \/ /\ a.done = b.done /\ a.due # {} /\ b.due # {}
       /\ \A x \in a.due : \A y \in b.due : x < y

\* C16: the order of the task list.  In every reachable state the query has
\* a result, and every result lists every task exactly once, with no task
\* placed after one it has to precede: open before done, then with a due
\* date before without, then earlier due date first.
C16_TaskListOrder ==
    LET listings == TaskListings(tasks, DOMAIN tasks)
    IN  /\ listings # {}
        /\ \A listing \in listings :
              /\ Len(listing) = Cardinality(DOMAIN tasks)
              /\ {listing[i] : i \in 1..Len(listing)} = DOMAIN tasks
              /\ \A i, j \in 1..Len(listing) :
                    i < j => ~ ListedBefore(tasks[listing[j]], tasks[listing[i]])

\* C16 witness: the tasks (done, due day 0), (open, no due date), (open, due
\* day 4), (open, due day 1), saved in this order, are listed as day 1, day
\* 4, no due date, done.
C16_Witness ==
    /\ DOMAIN tasks = 1..4
    /\ tasks[1].done /\ tasks[1].due = {0}
    /\ ~ tasks[2].done /\ tasks[2].due = {}
    /\ ~ tasks[3].done /\ tasks[3].due = {4}
    /\ ~ tasks[4].done /\ tasks[4].due = {1}
    /\ TaskListings(tasks, DOMAIN tasks) = {<<4, 3, 2, 1>>}

----------------------------------------------------------------------------
(* SpecPanel: the panel of unread notifications over several days          *)

\* The button of the row at a position of the panel as the page draws it.
ClickPanelRead ==
    \E listing \in get_unread_notifications(Rendered) :
        \E i \in 1..Len(listing) : ClickMarkRead(listing[i])

\* date_input "due" is left at today or set to tomorrow.
NextPanel ==
    \/ PageLoad /\ UNCHANGED last
    \/ \E due \in {clock, clock + 1} :
          /\ NextId(tasks) <= MaxTasks
          /\ SubmitTask(<<"a">>, "Medium", due, <<>>)
          /\ UNCHANGED last
    \/ ClickPanelRead /\ UNCHANGED last
    \/ ClickMarkAllRead /\ UNCHANGED last
    \/ Midnight(MaxClock) /\ UNCHANGED last

SpecPanel == Init /\ [][NextPanel]_vars

\* C17: the unread query.  In every reachable state the query has a result,
\* and every result lists each notification with is_read FALSE exactly once,
\* lists no other, and has no notification before one created on a later
\* day.
C17_UnreadQuery ==
    LET listings == get_unread_notifications(DB)
        unread == {n \in DOMAIN notifs : ~ notifs[n].is_read}
    IN  /\ listings # {}
        /\ \A listing \in listings :
              /\ {listing[i] : i \in 1..Len(listing)} = unread
              /\ Len(listing) = Cardinality(unread)
              /\ \A i, j \in 1..Len(listing) :
                    i < j => notifs[listing[i]].created_date
                                >= notifs[listing[j]].created_date

\* C17 witness: of the notifications of two days one of each day is read and
\* one of each day is unread; the panel lists the two unread ones, today's
\* first though it has the larger id.
C17_Witness ==
    /\ \E a, b \in DOMAIN notifs :
          /\ notifs[a].is_read /\ notifs[a].created_date = 0
          /\ notifs[b].is_read /\ notifs[b].created_date = 1
    /\ \E c, d \in DOMAIN notifs :
          /\ c < d
          /\ notifs[c].created_date = 0
          /\ notifs[d].created_date = 1
          /\ get_unread_notifications(DB) = {<<d, c>>}

----------------------------------------------------------------------------
(* SpecDangling: tasks and books deleted under their notifications         *)

\* The tasks and books together, and the largest id of either.
MaxDanglingRows == 2

DanglingRows == Cardinality(DOMAIN tasks) + Cardinality(DOMAIN books)

\* A task and a book have one notification each at a time.
MaxDanglingNotifs == MaxDanglingRows

\* date_input "due" is left at today; the book is entered as read to the end.
NextDangling ==
    \/ PageLoad /\ Quiet(MaxDanglingNotifs)
    \/ /\ NextId(tasks) <= MaxDanglingRows
       /\ DanglingRows < MaxDanglingRows
       /\ SubmitTask(<<"a">>, "Medium", clock, <<>>)
       /\ Quiet(MaxDanglingNotifs)
    \/ \E id \in DOMAIN tasks : ClickTaskDel(id) /\ Quiet(MaxDanglingNotifs)
    \/ /\ NextId(books) <= MaxDanglingRows
       /\ DanglingRows < MaxDanglingRows
       /\ SubmitBook(<<"a">>, <<>>, 1, 1)
       /\ Quiet(MaxDanglingNotifs)
    \/ \E id \in DOMAIN books : ClickBookDel(id) /\ Quiet(MaxDanglingNotifs)
    \/ \E id \in DOMAIN notifs : ClickMarkRead(id) /\ Quiet(MaxDanglingNotifs)
    \/ \E id \in DOMAIN notifs : ClickMarkUnread(id) /\ Quiet(MaxDanglingNotifs)
    \/ \E id \in DOMAIN notifs :
          ClickDeleteNotification(id) /\ Quiet(MaxDanglingNotifs)

SpecDangling == Init /\ [][NextDangling]_vars

\* The notifications whose related_id names a record that is not there: a
\* deadline reminder carries the id of a task, a book achievement that of a
\* book.
Dangling(db) ==
    {n \in DOMAIN db.notifs :
        \/ /\ db.notifs[n].type = "deadline"
           /\ db.notifs[n].related_id # {}
           /\ db.notifs[n].related_id \cap DOMAIN db.tasks = {}
        \/ /\ db.notifs[n].type = "achievement"
           /\ db.notifs[n].related_id # {}
           /\ db.notifs[n].related_id \cap DOMAIN db.books = {}}

\* C18: dangling back-references are tolerated.  In every reachable state the
\* handlers of task_del_<id> and book_del_<id> commit a database with the
\* notifications as they were, and the rerun after them keeps every one of
\* them as it was; and for every notification whose task or book is gone the
\* unread query lists it if and only if it is unread, marking it read or
\* unread changes its is_read only, deleting it removes it alone, and a pass
\* of the engine leaves it and the other tables as they are.
C18_DanglingTolerated ==
    /\ \A id \in DOMAIN tasks :
          /\ task_del(DB, id).notifs = notifs
          /\ \A n \in DOMAIN notifs : Rerun(task_del(DB, id)).notifs[n] = notifs[n]
    /\ \A id \in DOMAIN books :
          /\ book_del(DB, id).notifs = notifs
          /\ \A n \in DOMAIN notifs : Rerun(book_del(DB, id)).notifs[n] = notifs[n]
    /\ \A n \in Dangling(DB) :
          /\ get_unread_notifications(DB) # {}
          /\ \A listing \in get_unread_notifications(DB) :
                (\E i \in 1..Len(listing) : listing[i] = n) <=> ~ notifs[n].is_read
          /\ mark_notification_read(DB, n) = [DB EXCEPT !.notifs[n].is_read = TRUE]
          /\ mark_unread(DB, n) = [DB EXCEPT !.notifs[n].is_read = FALSE]
          /\ delete_notification(DB, n) = [DB EXCEPT !.notifs = Delete(notifs, n)]
          /\ EnginePass(DB, clock).notifs[n] = notifs[n]
          /\ EnginePass(DB, clock).tasks = tasks
          /\ EnginePass(DB, clock).books = books

\* C18 witness: the task and the book are deleted and their notifications
\* are still there with the ids of the two, the reminder marked read after
\* the task was gone and the achievement unread.
C18_Witness ==
    /\ tasks = EmptyTable
    /\ books = EmptyTable
    /\ \E a, b \in Dangling(DB) :
          /\ notifs[a].type = "deadline"
          /\ notifs[a].related_id = {1}
          /\ notifs[a].is_read
          /\ notifs[b].type = "achievement"
          /\ notifs[b].related_id = {1}
          /\ ~ notifs[b].is_read
----------------------------------------------------------------------------
(* SpecMidnight: one script execution, each statement of the engine a      *)
(* step, and the calendar date changing at any moment                      *)

\* The one browser of this specification.
Browser == 1

NextMidnight ==
    \/ \E event \in RaceEvents : RaceBegin(Browser, event)
    \/ RaceMigrate(Browser)
    \/ RaceDeadlineSelect(Browser)
    \/ RaceDeadlineCheck(Browser)
    \/ RaceDeadlineInsert(Browser)
    \/ RaceMultiCheck(Browser)
    \/ RaceMultiInsert(Browser)
    \/ RaceBookSelect(Browser)
    \/ RaceBookCheck(Browser)
    \/ RaceBookInsert(Browser)
    \/ RaceLearningCheck(Browser)
    \/ RaceLearningInsert(Browser)
    \/ RaceWidgets(Browser)
    \/ Midnight(MaxClock) /\ UNCHANGED last

SpecMidnight == Init /\ [][NextMidnight]_vars

\* C20: a single today per pass.  In every step of a script execution that
\* adds a notification, also with midnight between its statements, the
\* created_date of the new notification is the today its dedup query was
\* made with.
C20_SingleToday ==
    [][\A n \in DOMAIN notifs' \ DOMAIN notifs :
          notifs'[n].created_date = sess[Browser].today]_vars
----------------------------------------------------------------------------
(* SpecFail: one script execution, each statement of the engine a step,    *)
(* and any statement of the engine raising a storage error                 *)

\* The positions of a script execution at which a statement of the engine
\* works on the store.
EnginePcs ==
    {"migrate", "deadline_select", "deadline_check", "deadline_insert",
     "multi_check", "multi_insert", "book_select", "book_check", "book_insert",
     "learning_check", "learning_insert"}

\* A script execution whose error is caught around each of the two calls:
\* after an error it goes on with the function that follows.
FailedSwallowed(s) ==
    [sess[s] EXCEPT !.pc = IF sess[s].pc \in {"migrate", "deadline_select",
                                              "deadline_check", "deadline_insert"}
                           THEN "multi_check"
                           ELSE "widgets"]

\* The script execution after an exception: nothing catches it in
\* check_deadline_reminders, check_achievements or at the top of the script,
\* so the execution is over, with neither handler nor rerun.
Failed(s) == [Idle EXCEPT !.pc = "failed"]

\* A statement of the engine raises: the session is closed by its context
\* manager, which discards what was not committed and leaves the committed
\* rows as they are.
RaceFail(s) ==
    /\ sess[s].pc \in EnginePcs
    /\ sess' = [sess EXCEPT ![s] = Failed(s)]
    /\ Did("fail", s)
    /\ UNCHANGED <<tasks, shows, books, logs, notifs, clock>>

\* The user leaves the page of the error; the browser can start again.
RaceReload(s) ==
    /\ sess[s].pc = "failed"
    /\ sess' = [sess EXCEPT ![s] = Idle]
    /\ Did("reload", s)
    /\ UNCHANGED <<tasks, shows, books, logs, notifs, clock>>

NextFail ==
    \/ \E event \in RaceEvents : RaceBegin(Browser, event)
    \/ RaceMigrate(Browser)
    \/ RaceDeadlineSelect(Browser)
    \/ RaceDeadlineCheck(Browser)
    \/ RaceDeadlineInsert(Browser)
    \/ RaceMultiCheck(Browser)
    \/ RaceMultiInsert(Browser)
    \/ RaceBookSelect(Browser)
    \/ RaceBookCheck(Browser)
    \/ RaceBookInsert(Browser)
    \/ RaceLearningCheck(Browser)
    \/ RaceLearningInsert(Browser)
    \/ RaceWidgets(Browser)
    \/ RaceFail(Browser)
    \/ RaceReload(Browser)

SpecFail == Init /\ [][NextFail]_vars

\* C21: partial application on a store failure.  Every insert of the engine
\* is committed by its own step, before the next dedup query; and in the
\* step in which a statement of the engine fails, and in every step after
\* it until the page is loaded again, the five tables stay as they are:
\* nothing committed earlier in the pass is taken back and no later rule of
\* the pass adds anything.
C21_PartialApplication ==
    [][/\ last'.op = "fail" => DB' = DB
       /\ sess[Browser].pc \in {"deadline_insert", "book_insert"}
          /\ sess'[Browser].pc \in {"deadline_check", "book_check"}
          /\ ~ sess[Browser].found
          => DOMAIN notifs' = DOMAIN notifs \cup {NextId(notifs)}
      ]_vars

\* C21 witness: the pass of the rerun after the book form committed the
\* notification of the book, which is the newest of the store, and failed
\* after it, before the learning rule was done; the notification of the task
\* from a pass before is there as well.
C21_Witness ==
    /\ last.op = "fail"
    /\ sess[Browser].pc = "failed"
    /\ \E t, b \in DOMAIN notifs :
          /\ t < b
          /\ notifs[t].type = "deadline"
          /\ notifs[b].type = "achievement"
          /\ notifs[b].related_id = {1}
          /\ b = Max(DOMAIN notifs)
----------------------------------------------------------------------------
(* SpecMessage: tasks of every due date around today, over several days    *)

\* The dates picked in date_input "due": from day 0 to one day past the
\* window of day 0.
MessageDues == 0..(ReminderWindow + 1)

NextMessage ==
    \/ PageLoad /\ UNCHANGED last
    \/ \E due \in MessageDues :
          /\ NextId(tasks) <= MaxTasks
          /\ SubmitTask(<<"a">>, "Medium", due, <<>>)
          /\ UNCHANGED last
    \/ Midnight(MaxClock) /\ UNCHANGED last

SpecMessage == Init /\ [][NextMessage]_vars

\* C23: the variant of the deadline message.  In every reachable state every
\* notification of type deadline carries the id of a task, and with
\* days_left the due date of that task minus the created_date of the
\* notification: days_left is within 0..3, the message names the title of
\* the task and days_left, and its phrasing is "today" iff days_left = 0,
\* "tomorrow" iff days_left = 1 and "in N days" iff days_left is 2 or 3.
C23_DeadlineMessageVariant ==
    \A n \in DOMAIN notifs :
        notifs[n].type = "deadline" =>
            \E id \in DOMAIN tasks :
                LET days_left == Max(tasks[id].due) - notifs[n].created_date
                    message == notifs[n].message
                IN  /\ notifs[n].related_id = {id}
                    /\ days_left \in 0..ReminderWindow
                    /\ message.title = tasks[id].title
                    /\ message.n = days_left
                    /\ message.text = "today" <=> days_left = 0
                    /\ message.text = "tomorrow" <=> days_left = 1
                    /\ message.text = "in_days" <=> days_left \in {2, 3}

\* C23 witness: a task due on day 1 and a task due on day 3 have their
\* reminders of day 0 and of day 1: tomorrow and today for the first, in 3
\* days and in 2 days for the second.
C23_Witness ==
    \E a, b \in DOMAIN tasks :
        /\ tasks[a].due = {1}
        /\ tasks[b].due = {3}
        /\ \E n \in DOMAIN notifs :
              notifs[n].related_id = {a} /\ notifs[n].message.text = "tomorrow"
        /\ \E n \in DOMAIN notifs :
              notifs[n].related_id = {a} /\ notifs[n].message.text = "today"
        /\ \E n \in DOMAIN notifs :
              /\ notifs[n].related_id = {b}
              /\ notifs[n].message.text = "in_days" /\ notifs[n].message.n = 3
        /\ \E n \in DOMAIN notifs :
              /\ notifs[n].related_id = {b}
              /\ notifs[n].message.text = "in_days" /\ notifs[n].message.n = 2
----------------------------------------------------------------------------
(* SpecReturn: notifications deleted while their rule still applies        *)

\* The ids of the notifications stay within 1..MaxReturnNotifs.
MaxReturnNotifs == 2 * MultiTaskThreshold + 1

\* The tasks are due on day 1 and are ticked off in the order of their ids;
\* there are as many as the multi-task rule needs, one book and one log.  One
\* notification at a time is marked read, and the user deletes or clears
\* once.
NextReturn ==
    \/ PageLoad /\ Quiet(MaxReturnNotifs)
    \/ /\ NextId(tasks) <= MultiTaskThreshold
       /\ SubmitTask(<<"a">>, "Medium", 1, <<>>)
       /\ Quiet(MaxReturnNotifs)
    \/ \E id \in DOMAIN tasks :
          /\ ~ tasks[id].done
          /\ \A other \in DOMAIN tasks : other < id => tasks[other].done
          /\ ClickTaskDone(id)
          /\ Quiet(MaxReturnNotifs)
    \/ /\ NextId(tasks) > MultiTaskThreshold
       /\ NextId(books) <= 1
       /\ SubmitBook(<<"a">>, <<>>, 1, 1)
       /\ Quiet(MaxReturnNotifs)
    \/ /\ books # EmptyTable
       /\ NextId(logs) <= 1
       /\ SubmitLearning(<<"a">>, LearningThreshold, <<>>)
       /\ Quiet(MaxReturnNotifs)
    \/ \E id \in DOMAIN notifs :
          /\ \A other \in DOMAIN notifs : ~ notifs[other].is_read
          /\ ClickMarkRead(id)
          /\ Quiet(MaxReturnNotifs)
    \/ /\ last.op = "init"
       /\ ClickClearRead
       /\ NotifsWithin(MaxReturnNotifs)
       /\ Did("clear_read", 0)
    \/ \E id \in DOMAIN notifs :
          /\ last.op = "init"
          /\ ClickDeleteNotification(id)
          /\ NotifsWithin(MaxReturnNotifs)
          /\ Did("delete_notification", id)
    \/ Midnight(MaxClock) /\ UNCHANGED last

SpecReturn == Init /\ [][NextReturn]_vars

\* The condition of the rule that made a notification holds today: the task
\* is open and due within the window, the book is read to the end, enough
\* tasks due today are done, enough minutes are logged today.
TriggerHolds(db, row, today) ==
    IF row.type = "deadline"
    THEN row.related_id \cap UpcomingTasks(db.tasks, today) # {}
    ELSE IF row.type = "achievement" /\ row.related_id # {}
    THEN row.related_id \cap CompletedBooks(db.books) # {}
    ELSE IF row.type = "achievement"
    THEN MultiTaskReached(Cardinality(TodayDoneTasks(db.tasks, today)))
    ELSE SumMinutes(db.logs, LearningLogsToday(db.logs, today)) >= LearningThreshold

\* What the handler of delete_<id> commits, after the pass at the top of its
\* script execution and before its rerun.
DeleteCommit(n) == delete_notification(Rendered, n)

\* What the handler of "clear all read" commits after a click on
\* mark_read_<id>, each click a script execution with its rerun.
ClearCommit(n) ==
    clear_read(ScriptTop(Rerun(mark_notification_read(Rendered, n)), clock))

\* The rerun after the commit inserts an unread notification with the dedup
\* key of row.
CameBack(commit, row) ==
    \E m \in DOMAIN Rerun(commit).notifs \ DOMAIN commit.notifs :
        /\ ~ Rerun(commit).notifs[m].is_read
        /\ SameKey(Rerun(commit).notifs[m], row)

\* The rerun after the commit leaves no notification with the dedup key of
\* row.
StayedAway(commit, row) ==
    \A m \in DOMAIN Rerun(commit).notifs : ~ SameKey(Rerun(commit).notifs[m], row)

\* The dedup key of the row names no day, or names today.
KeyOfToday(row, today) ==
    \/ row.type = "achievement" /\ row.related_id # {}
    \/ row.created_date = today

\* C24 as stated: every notification whose rule still applies comes back,
\* with its dedup key, after it is deleted or marked read and cleared.
C24_DeletedComeBack ==
    \A n \in DOMAIN Rendered.notifs :
        TriggerHolds(Rendered, Rendered.notifs[n], clock)
        => /\ CameBack(DeleteCommit(n), Rendered.notifs[n])
           /\ CameBack(ClearCommit(n), Rendered.notifs[n])

\* C24: deleted notifications come back.  In every reachable state, for
\* every notification on the page whose rule still applies: if its dedup key
\* is that of today (a book achievement, or created today), then after
\* delete_<id>, and after mark read and "clear all read", the pass of the
\* rerun inserts a new unread notification with the same key; if it was
\* created on an earlier day, no notification with its key exists after the
\* rerun, and the rerun after delete_<id> inserts nothing at all.
C24_DeletedComeBackIfOfToday ==
    \A n \in DOMAIN Rendered.notifs :
        LET row == Rendered.notifs[n]
        IN  TriggerHolds(Rendered, row, clock)
            => IF KeyOfToday(row, clock)
               THEN /\ CameBack(DeleteCommit(n), row)
                    /\ CameBack(ClearCommit(n), row)
               ELSE /\ StayedAway(DeleteCommit(n), row)
                    /\ StayedAway(ClearCommit(n), row)
                    /\ Rerun(DeleteCommit(n)) = DeleteCommit(n)

\* C24 witness: on day 1, with three done tasks due today, the user deleted
\* the multi-task achievement, the newest notification, and the rerun made it
\* again under the same id; the reminders of day 0 are still there.
C24_Witness ==
    /\ clock = 1
    /\ last.op = "delete_notification"
    /\ last.id \in DOMAIN notifs
    /\ last.id = Max(DOMAIN notifs)
    /\ notifs[last.id].title = MultiTaskTitle
    /\ ~ notifs[last.id].is_read
    /\ books = EmptyTable
    /\ \E n \in DOMAIN notifs : notifs[n].type = "deadline" /\ notifs[n].created_date = 0

\* C27: "clear all read" deletes exactly the read notifications.  In every
\* reachable state, of the page as the click finds it, the handler commits
\* a table of notifications that has every unread notification under its id
\* with all its fields and no other row, hence no read one, and the tasks,
\* shows, books and logs as they were.
C27_ClearReadExactly ==
    LET cleared == clear_read(Rendered)
        unread == {n \in DOMAIN Rendered.notifs : ~ Rendered.notifs[n].is_read}
    IN  /\ DOMAIN cleared.notifs = unread
        /\ \A n \in unread : cleared.notifs[n] = Rendered.notifs[n]
        /\ \A n \in DOMAIN cleared.notifs : ~ cleared.notifs[n].is_read
        /\ cleared.tasks = Rendered.tasks
        /\ cleared.shows = Rendered.shows
        /\ cleared.books = Rendered.books
        /\ cleared.logs = Rendered.logs

\* C27 witness: on day 1 the user cleared the read notifications: a read
\* reminder of day 0 is gone and has left a gap in the ids, the unread
\* reminders of day 0 and of day 1 are there, and the task is as it was.
C27_Witness ==
    /\ clock = 1
    /\ last.op = "clear_read"
    /\ \A n \in DOMAIN notifs : ~ notifs[n].is_read
    /\ \E gap \in 1..Max(DOMAIN notifs \cup {1}) : gap \notin DOMAIN notifs
    /\ \E n \in DOMAIN notifs : notifs[n].created_date = 0
    /\ \E n \in DOMAIN notifs : notifs[n].created_date = 1
    /\ \E id \in DOMAIN tasks : ~ tasks[id].done
----------------------------------------------------------------------------
(* SpecRead: notifications of the four rules marked read and unread        *)

\* The tasks are due on the day they are saved and are ticked off in the
\* order of their ids; there are as many as the multi-task rule needs, then
\* one book and one log.
NextRead ==
    \/ PageLoad /\ UNCHANGED last
    \/ /\ NextId(tasks) <= MultiTaskThreshold
       /\ SubmitTask(<<"a">>, "Medium", clock, <<>>)
       /\ UNCHANGED last
    \/ \E id \in DOMAIN tasks :
          /\ ~ tasks[id].done
          /\ \A other \in DOMAIN tasks : other < id => tasks[other].done
          /\ ClickTaskDone(id)
          /\ UNCHANGED last
    \/ /\ NextId(tasks) > MultiTaskThreshold
       /\ NextId(books) <= 1
       /\ SubmitBook(<<"a">>, <<>>, 1, 1)
       /\ UNCHANGED last
    \/ /\ books # EmptyTable
       /\ NextId(logs) <= 1
       /\ SubmitLearning(<<"a">>, LearningThreshold, <<>>)
       /\ UNCHANGED last
    \/ \E id \in DOMAIN notifs : ClickMarkRead(id) /\ Did("mark_read", id)
    \/ \E id \in DOMAIN notifs : ClickMarkUnread(id) /\ Did("mark_unread", id)
    \/ ClickMarkAllRead /\ Did("mark_all_read", 0)
    \/ Midnight(MaxClock) /\ UNCHANGED last

SpecRead == Init /\ [][NextRead]_vars

\* The notifications of a table with the dedup key of a row.
WithKey(ntf, row) == {m \in DOMAIN ntf : SameKey(ntf[m], row)}

\* C25: the read status does not affect the dedup.  In every reachable
\* state, reached by any sequence of mark read, mark unread and mark all read
\* with an engine pass before and after each, every notification is the only
\* one with its dedup key; and with any notification marked read, or marked
\* unread, a pass on the same day inserts nothing that the pass of the page
\* load would not insert.
C25_ReadStatusIgnored ==
    /\ \A n \in DOMAIN notifs : WithKey(notifs, notifs[n]) = {n}
    /\ \A n \in DOMAIN Rendered.notifs :
          /\ DOMAIN EnginePass(mark_notification_read(Rendered, n), clock).notifs
                = DOMAIN Rendered.notifs
          /\ DOMAIN EnginePass(mark_unread(Rendered, n), clock).notifs
                = DOMAIN Rendered.notifs

\* C25 witness: the notifications of all four rules are there, one each for
\* the multi-task, book and learning rule, and the last click marked one of
\* them unread again while the others are read.
C25_Witness ==
    /\ last.op = "mark_unread"
    /\ last.id \in DOMAIN notifs
    /\ ~ notifs[last.id].is_read
    /\ \A n \in DOMAIN notifs \ {last.id} : notifs[n].is_read
    /\ \E n \in DOMAIN notifs : notifs[n].type = "deadline"
    /\ \E n \in DOMAIN notifs : notifs[n].title = MultiTaskTitle
    /\ \E n \in DOMAIN notifs : notifs[n].title = BookTitle
    /\ \E n \in DOMAIN notifs : notifs[n].type = "motivation"
----------------------------------------------------------------------------
(* SpecCreate: the eight forms that add a row, with titles that need       *)
(* trimming                                                                *)

MaxCreateRows == 2

\* The titles and topics typed: empty, blank, padded, and with a space inside.
CreateTitles == TitleInputs \cup {<<"a", " ", "b">>}

\* Did records the table of the form and the title as typed.
NextCreate ==
    \/ \E title \in CreateTitles :
          /\ Rows < MaxCreateRows
          /\ SubmitTask(title, "High", clock, <<" ">>)
          /\ Did("tasks", title)
    \/ \E title \in CreateTitles :
          /\ Rows < MaxCreateRows
          /\ SubmitQuickTask(title, "Low")
          /\ Did("tasks", title)
    \/ \E title \in CreateTitles :
          /\ Rows < MaxCreateRows
          /\ SubmitShow(title, 1, 0, 0)
          /\ Did("shows", title)
    \/ \E title \in CreateTitles :
          /\ Rows < MaxCreateRows
          /\ SubmitQuickShow(title)
          /\ Did("shows", title)
    \/ \E title \in CreateTitles :
          /\ Rows < MaxCreateRows
          /\ SubmitBook(title, <<" ">>, 1, 0)
          /\ Did("books", title)
    \/ \E title \in CreateTitles :
          /\ Rows < MaxCreateRows
          /\ SubmitQuickBook(title, <<>>)
          /\ Did("books", title)
    \/ \E topic \in CreateTitles :
          /\ Rows < MaxCreateRows
          /\ SubmitLearning(topic, 30, <<" ">>)
          /\ Did("logs", topic)
    \/ \E topic \in CreateTitles :
          /\ Rows < MaxCreateRows
          /\ SubmitQuickLearning(topic, 30)
          /\ Did("logs", topic)

SpecCreate == Init /\ [][NextCreate]_vars

\* typed is blank: empty or spaces only.
Blank(typed) == \A i \in 1..Len(typed) : typed[i] = " "

\* stored is typed without the spaces at its two ends.
TrimOf(stored, typed) ==
    /\ stored # <<>>
    /\ stored[1] # " "
    /\ stored[Len(stored)] # " "
    /\ \E i, j \in 1..Len(typed) :
          /\ stored = SubSeq(typed, i, j)
          /\ \A k \in 1..(i - 1) : typed[k] = " "
          /\ \A k \in (j + 1)..Len(typed) : typed[k] = " "

\* The table grew by one row at the next id, a row of the name typed.
Grew(old, new, field, typed) ==
    /\ DOMAIN new = DOMAIN old \cup {NextId(old)}
    /\ \A id \in DOMAIN old : new[id] = old[id]
    /\ TrimOf(new[NextId(old)][field], typed)

\* C13: create validation.  In every step of a form: if the title or topic
\* typed is blank, the four tables are left as they were, and the
\* notifications are those a page load gives; otherwise the table of the form
\* gains exactly one row, whose title or topic is the typed one trimmed, and
\* the other three tables are left as they were.  So no stored row has an
\* empty title or topic.
C13_CreateValidation ==
    [][LET typed == last'.id
       IN  /\ Blank(typed) =>
                /\ <<tasks', shows', books', logs'>> = <<tasks, shows, books, logs>>
                /\ notifs' = Rendered.notifs
           /\ ~ Blank(typed) =>
                /\ IF last'.op = "tasks" THEN Grew(tasks, tasks', "title", typed)
                   ELSE tasks' = tasks
                /\ IF last'.op = "shows" THEN Grew(shows, shows', "title", typed)
                   ELSE shows' = shows
                /\ IF last'.op = "books" THEN Grew(books, books', "title", typed)
                   ELSE books' = books
                /\ IF last'.op = "logs" THEN Grew(logs, logs', "topic", typed)
                   ELSE logs' = logs
           /\ \A id \in DOMAIN tasks' : tasks'[id].title # <<>>
           /\ \A id \in DOMAIN shows' : shows'[id].title # <<>>
           /\ \A id \in DOMAIN books' : books'[id].title # <<>>
           /\ \A id \in DOMAIN logs' : logs'[id].topic # <<>>
      ]_vars

\* C13 witness: a row was saved as "a" from a padded title, and the latest
\* submit, of a title of one space, was rejected.
C13_Witness ==
    /\ last.op = "tasks"
    /\ last.id = <<" ">>
    /\ Rows = 1
    /\ \E id \in DOMAIN books : books[id].title = <<"a">>

====
